---- MODULE Spec2Model ----
(***************************************************************************)
(* Streaming, indexed codec for sparse document-term matrices             *)
(* (gensim.corpora.ucicorpus / gensim.corpora.mmcorpus).                   *)
(*                                                                         *)
(* A file is a sequence of one-character strings (bytes); byte offset p    *)
(* of the file is element p + 1 of the sequence.  A weight w is held as    *)
(* the integer 2 * w (so 1 is 0.5, 2 is 1.0, 3 is 1.5).  A Python int that *)
(* is written to or parsed from a header is held as the sequence of its    *)
(* decimal digits, most significant first, because header counts may need  *)
(* more than 20 digits.  An action binds an intermediate result with       *)
(* \E r \in {expr} so that it is computed once.                            *)
(***************************************************************************)
EXTENDS Integers, Sequences, FiniteSets, TLC

\* ------------------------------------------------------------------ bounds

\* documents per corpus
MaxDocs == 3

\* (feature_id, weight) pairs per corpus
MaxNnz == 2

FeatureIds == {0, 1}

\* weights 0, 0.5, 1.0 and 1.5, in halves
Weights == {0, 1, 2, 3}

\* every weight on feature 0; zero and 1.0 on the others
Pairs == ({0} \X Weights) \cup (FeatureIds \X {0, 2})

\* Sparse Documents: feature ids strictly increasing within a document
Docs ==
    {<<>>} \cup {<<p>> : p \in Pairs}
           \cup {d \in Pairs \X Pairs : d[1][1] < d[2][1]}

RECURSIVE TotalPairs(_)
TotalPairs(c) == IF Len(c) = 0 THEN 0 ELSE Len(c[1]) + TotalPairs(Tail(c))

Corpora ==
    UNION {{c \in [1..n -> Docs] : TotalPairs(c) <= MaxNnz} : n \in 0..MaxDocs}

\* the id2word argument: absent (None), or a dict from feature ids to words
Id2Words ==
    {[none |-> TRUE, dict |-> <<>>],
     [none |-> FALSE, dict |-> <<>>],
     [none |-> FALSE, dict |-> [i \in {0, 1, 2} |-> "w"]],
     [none |-> FALSE, dict |-> [i \in {0, 2} |-> "w"]]}

\* ------------------------------------------------------- bytes and numbers

SP == " "

NL == "\n"

DigitChars == <<"0", "1", "2", "3", "4", "5", "6", "7", "8", "9">>

IsDigit(c) == \E d \in 1..10 : DigitChars[d] = c

DigitOf(c) == (CHOOSE d \in 1..10 : DigitChars[d] = c) - 1

RECURSIVE PyInt(_)
\* the decimal digits of a non-negative int
PyInt(n) == IF n < 10 THEN <<n>> ELSE Append(PyInt(n \div 10), n % 10)

RECURSIVE IntVal(_)
\* the int a digit sequence denotes (small values only)
IntVal(ds) ==
    IF Len(ds) = 0 THEN 0
    ELSE 10 * IntVal(SubSeq(ds, 1, Len(ds) - 1)) + ds[Len(ds)]

\* str(n) of an int held as digits
str(ds) == [i \in 1..Len(ds) |-> DigitChars[ds[i] + 1]]

Spaces(n) == [i \in 1..n |-> SP]

RECURSIVE FirstInk(_, _)
\* the first index from i on that holds no whitespace (Len(s) + 1 when none)
FirstInk(s, i) ==
    IF i <= Len(s) /\ s[i] \in {SP, NL} THEN FirstInk(s, i + 1) ELSE i

RECURSIVE LastInk(_, _)
\* the last index up to i that holds no whitespace (0 when none)
LastInk(s, i) ==
    IF i >= 1 /\ s[i] \in {SP, NL} THEN LastInk(s, i - 1) ELSE i

\* bytes.strip()
strip(s) == SubSeq(s, FirstInk(s, 1), LastInk(s, Len(s)))

RECURSIVE DropZeros(_)
DropZeros(ds) == IF Len(ds) > 1 /\ ds[1] = 0 THEN DropZeros(Tail(ds)) ELSE ds

\* the outcome of a conversion that raises ValueError (no digit sequence, no weight)
ValueError == <<-1>>

WeightError == -1

\* int(s): the digits of the number, or ValueError
int(s) ==
    IF Len(s) > 0 /\ \A i \in 1..Len(s) : IsDigit(s[i])
    THEN DropZeros([i \in 1..Len(s) |-> DigitOf(s[i])])
    ELSE ValueError

\* IntWeight that rounds to the nearest integer instead of truncating
IntWeightRound(h) == 2 * ((h + 1) \div 2)

\* int(y) of a non-negative weight: truncation, result again in halves
IntWeight(h) == 2 * (h \div 2)

\* "%s" of a weight: an int count prints as digits, a float with its fraction
FormatWeight(h, asInt) ==
    IF asInt THEN str(PyInt(h \div 2))
    ELSE str(PyInt(h \div 2)) \o <<".">> \o (IF h % 2 = 0 THEN <<"0">> ELSE <<"5">>)

\* float(token), in halves, or WeightError
ParseWeight(tok) ==
    LET dot == {i \in 1..Len(tok) : tok[i] = "."} IN
    IF dot = {} THEN
        (LET v == int(tok) IN IF v = ValueError THEN WeightError ELSE 2 * IntVal(v))
    ELSE LET p == CHOOSE i \in dot : TRUE
             whole == int(SubSeq(tok, 1, p - 1))
             frac == SubSeq(tok, p + 1, Len(tok))
         IN IF Cardinality(dot) # 1 \/ whole = ValueError \/ frac \notin {<<"0">>, <<"5">>}
            THEN WeightError
            ELSE 2 * IntVal(whole) + (IF frac = <<"5">> THEN 1 ELSE 0)

\* ------------------------------------------------------------- file access

\* fout.seek(offset); fout.write(data): overwrite in place, extend at the end
WriteAt(f, offset, data) ==
    [i \in 1..(IF offset + Len(data) > Len(f) THEN offset + Len(data) ELSE Len(f)) |->
        IF i > offset /\ i <= offset + Len(data) THEN data[i - offset]
        ELSE IF i <= Len(f) THEN f[i] ELSE SP]

RECURSIVE LineEnd(_, _)
\* the offset just after the line that starts at offset p (after its "\n" or at EOF)
LineEnd(f, p) ==
    IF p >= Len(f) THEN Len(f)
    ELSE IF f[p + 1] = NL THEN p + 1 ELSE LineEnd(f, p + 1)

\* next(fin) at offset p: the bytes of the line, terminator included
LineAt(f, p) == SubSeq(f, p + 1, LineEnd(f, p))

RECURSIVE SplitWs(_, _, _, _)
\* the whitespace-separated tokens of s from index i on; start is where the
\* token being read began (0 between tokens)
SplitWs(s, i, start, out) ==
    IF i > Len(s)
    THEN (IF start > 0 THEN Append(out, SubSeq(s, start, Len(s))) ELSE out)
    ELSE IF s[i] \in {SP, NL}
         THEN SplitWs(s, i + 1, 0,
                      IF start > 0 THEN Append(out, SubSeq(s, start, i - 1)) ELSE out)
         ELSE SplitWs(s, i + 1, IF start > 0 THEN start ELSE i, out)

\* bytes.split()
split(s) == SplitWs(s, 1, 0, <<>>)

\* ------------------------------------------------------------- entry lines

\* one entry line "doc_id term_id weight\n"
EntryLine(docno, termid, h, asInt) ==
    str(PyInt(docno)) \o <<SP>> \o str(PyInt(termid)) \o <<SP>>
        \o FormatWeight(h, asInt) \o <<NL>>

PairLess(p, q) == p[1] < q[1] \/ (p[1] = q[1] /\ p[2] < q[2])

RECURSIVE Insert(_, _)
Insert(p, s) ==
    IF Len(s) = 0 THEN <<p>>
    ELSE IF PairLess(p, s[1]) THEN <<p>> \o s
    ELSE <<s[1]>> \o Insert(p, Tail(s))

RECURSIVE sorted(_)
sorted(v) == IF Len(v) = 0 THEN <<>> ELSE Insert(v[1], sorted(Tail(v)))

RECURSIVE NonZero(_)
\* the coordinate dialect writes the non-zero-weight pairs, weights as they are
NonZero(v) ==
    IF Len(v) = 0 THEN <<>>
    ELSE IF v[1][2] # 0 THEN <<v[1]>> \o NonZero(Tail(v)) ELSE NonZero(Tail(v))

RECURSIVE VectorLines(_, _, _)
VectorLines(docno, v, asInt) ==
    IF Len(v) = 0 THEN <<>>
    ELSE EntryLine(docno, v[1][1], v[1][2], asInt) \o VectorLines(docno, Tail(v), asInt)

\* MmWriter.write_vector: one line per pair of the vector, in increasing
\* feature-id order, appended at the end of the sink; returns (max_id, veclen)
write_vector(f, docno, vector, asInt) ==
    LET v == sorted(vector) IN
    [fout |-> f \o VectorLines(docno, v, asInt),
     max_id |-> IF Len(v) = 0 THEN -1 ELSE v[Len(v)][1],
     veclen |-> Len(v)]

Max(a, b) == IF a >= b THEN a ELSE b

\* -------------------------------------------------------------- UCI writer

MAX_HEADER_LENGTH == 20

FAKE_HEADER == Spaces(MAX_HEADER_LENGTH) \o <<NL>>

\* UciWriter.write_headers: three blank header lines
write_headers == FAKE_HEADER \o FAKE_HEADER \o FAKE_HEADER

RECURSIVE UpdateLoop(_, _, _, _)
\* the loop of update_headers over the three values, in order
UpdateLoop(f, values, k, offset) ==
    IF k > Len(values) THEN [fout |-> f, raised |-> FALSE]
    ELSE IF Len(values[k]) > Len(FAKE_HEADER) THEN [fout |-> f, raised |-> TRUE]
    ELSE UpdateLoop(WriteAt(f, offset, values[k]), values, k + 1,
                    offset + Len(FAKE_HEADER))

\* UciWriter.update_headers(num_docs, num_terms, num_nnz)
update_headers(f, nd, nt, nn) == UpdateLoop(f, <<str(nd), str(nt), str(nn)>>, 1, 0)

RECURSIVE UciVectorKeepZero(_)
\* UciVector without its filter: [(x, int(y)) for (x, y) in bow]
UciVectorKeepZero(bow) ==
    IF Len(bow) = 0 THEN <<>>
    ELSE <<(<<bow[1][1], IntWeight(bow[1][2])>>)>> \o UciVectorKeepZero(Tail(bow))

RECURSIVE UciVector(_)
\* [(x, int(y)) for (x, y) in bow if int(y) != 0]
UciVector(bow) ==
    IF Len(bow) = 0 THEN <<>>
    ELSE IF IntWeight(bow[1][2]) # 0
         THEN <<(<<bow[1][1], IntWeight(bow[1][2])>>)>> \o UciVector(Tail(bow))
         ELSE UciVector(Tail(bow))

\* --------------------------------------------------- coordinate (MM) writer

\* the comment block that precedes the dimension line
MM_HEADER_LINE == <<"%", NL>>

\* reserved width of the dimension line
MM_STATS_WIDTH == 50

\* write_placeholder of the coordinate dialect
mm_write_headers == MM_HEADER_LINE \o Spaces(MM_STATS_WIDTH) \o <<NL>>

\* patch_header of the coordinate dialect: "num_docs num_terms num_nnz" over the
\* reserved line
fake_headers(f, nd, nt, nn) ==
    LET stats == str(nd) \o <<SP>> \o str(nt) \o <<SP>> \o str(nn) IN
    IF Len(stats) > MM_STATS_WIDTH THEN [fout |-> f, raised |-> TRUE]
    ELSE [fout |-> WriteAt(f, Len(MM_HEADER_LINE), stats), raised |-> FALSE]

\* ----------------------------------------------------------------- readers

RECURSIVE ReadInts(_, _, _, _)
\* int(next(fin).strip()) up to k times from offset p; stops early at end of
\* file (StopIteration) and raises on a line that is no integer
ReadInts(f, p, k, acc) ==
    IF k = 0 \/ p >= Len(f) THEN [vals |-> acc, raised |-> FALSE]
    ELSE LET v == int(strip(LineAt(f, p))) IN
         IF v = ValueError THEN [vals |-> acc, raised |-> TRUE]
         ELSE ReadInts(f, LineEnd(f, p), k - 1, Append(acc, v))

\* UciReader.__init__: the three counts, each 0 until its line has been read
UciReaderInit(f) ==
    LET r == ReadInts(f, 0, 3, <<>>)
        val(i) == IF Len(r.vals) >= i THEN r.vals[i] ELSE <<0>>
    IN [num_docs |-> val(1), num_terms |-> val(2), num_nnz |-> val(3),
        raised |-> r.raised]

RECURSIVE SkipLines(_, _, _)
SkipLines(f, p, k) ==
    IF k = 0 \/ p >= Len(f) THEN p ELSE SkipLines(f, LineEnd(f, p), k - 1)

\* skip_headers that breaks at the second line
skip_headersTwo(f) == SkipLines(f, 0, 2)

\* UciReader.skip_headers: consume lines 0, 1 and 2
skip_headers(f) == SkipLines(f, 0, 3)

RECURSIVE SkipComments(_, _)
SkipComments(f, p) ==
    IF p < Len(f) /\ f[p + 1] = "%" THEN SkipComments(f, LineEnd(f, p)) ELSE p

\* parse_header of the coordinate dialect: skip the comment lines, then one
\* line with the three counts
MmReaderInit(f) ==
    LET toks == split(LineAt(f, SkipComments(f, 0)))
        vals == [i \in 1..Len(toks) |-> int(toks[i])]
        bad == Len(toks) # 3 \/ \E i \in 1..Len(toks) : vals[i] = ValueError
    IN IF bad
       THEN [num_docs |-> <<0>>, num_terms |-> <<0>>, num_nnz |-> <<0>>, raised |-> TRUE]
       ELSE [num_docs |-> vals[1], num_terms |-> vals[2], num_nnz |-> vals[3],
             raised |-> FALSE]

mm_skip_headers(f) == LineEnd(f, SkipComments(f, 0))

\* one entry line decoded to (doc_id, feature_id, weight)
Decode(line) ==
    LET toks == split(line) IN
    IF Len(toks) # 3 THEN [bad |-> TRUE, doc |-> -1, term |-> -1, w |-> 0]
    ELSE LET d == int(toks[1])
             t == int(toks[2])
             w == ParseWeight(toks[3])
         IN IF d = ValueError \/ t = ValueError \/ w = WeightError
            THEN [bad |-> TRUE, doc |-> -1, term |-> -1, w |-> 0]
            ELSE [bad |-> FALSE, doc |-> IntVal(d), term |-> IntVal(t), w |-> w]

\* Empties with its last id left out
EmptiesShort(a, b) == [i \in 1..(b - a) |-> <<a + i - 1, <<>> >>]

\* the empty documents for ids a..b
Empties(a, b) == [i \in 1..(b - a + 1) |-> <<a + i - 1, <<>> >>]

\* Emit that yields the id without the accumulated entries
EmitForgetful(cur, acc) == IF cur >= 0 THEN << <<cur, <<>> >> >> ELSE <<>>

\* the document accumulated so far, once there is one
Emit(cur, acc) == IF cur >= 0 THEN << <<cur, acc>> >> ELSE <<>>

RECURSIVE IterLoop(_, _, _, _, _, _)
\* the grouping loop of iterate from offset p: cur is current_doc_id (-1 before
\* the first line), acc the entries accumulated for it, out what was emitted
IterLoop(f, p, cur, acc, out, num_docs) ==
    IF p >= Len(f)
    THEN [out |-> out \o Emit(cur, acc) \o Empties(cur + 1, num_docs - 1),
          raised |-> FALSE]
    ELSE LET e == Decode(LineAt(f, p)) IN
         IF e.bad THEN [out |-> out, raised |-> TRUE]
         ELSE IF e.doc = cur
         THEN IterLoop(f, LineEnd(f, p), cur, Append(acc, <<e.term, e.w>>), out,
                       num_docs)
         ELSE IterLoop(f, LineEnd(f, p), e.doc, << <<e.term, e.w>> >>,
                       out \o Emit(cur, acc) \o Empties(cur + 1, e.doc - 1),
                       num_docs)

\* MmReader.__iter__: every (doc_id, document) of a full pass that starts at the
\* first entry line
iterate(f, start, num_docs) == IterLoop(f, start, -1, <<>>, <<>>, num_docs)

RECURSIVE OffsetLoopToEnd(_, _, _, _)
\* OffsetLoop that does not stop at a change of document id
OffsetLoopToEnd(f, p, cur, acc) ==
    IF p >= Len(f) THEN [doc |-> acc, raised |-> FALSE]
    ELSE LET e == Decode(LineAt(f, p)) IN
         IF e.bad THEN [doc |-> <<>>, raised |-> TRUE]
         ELSE OffsetLoopToEnd(f, LineEnd(f, p), e.doc, Append(acc, <<e.term, e.w>>))

RECURSIVE OffsetLoop(_, _, _, _)
\* the grouping loop of read_at from offset p: stops at the first line whose
\* document id differs from the first one read, and fills no gap
OffsetLoop(f, p, cur, acc) ==
    IF p >= Len(f) THEN [doc |-> acc, raised |-> FALSE]
    ELSE LET e == Decode(LineAt(f, p)) IN
         IF e.bad THEN [doc |-> <<>>, raised |-> TRUE]
         ELSE IF cur >= 0 /\ e.doc # cur THEN [doc |-> acc, raised |-> FALSE]
         ELSE OffsetLoop(f, LineEnd(f, p), e.doc, Append(acc, <<e.term, e.w>>))

\* an offset the line decoder can start at: the start of a line, or end of file
IsLineStart(f, offset) ==
    /\ offset >= 0
    /\ offset <= Len(f)
    /\ offset > 0 => f[offset] = NL

\* MmReader.docbyoffset: the run of lines from offset that share one doc_id
docbyoffset(f, offset) ==
    IF ~IsLineStart(f, offset) THEN [doc |-> <<>>, raised |-> TRUE]
    ELSE OffsetLoop(f, offset, -1, <<>>)

\* --------------------------------------------------------------------- state

VARIABLES
    dialect,        \* "uci" or "mm"
    corpus,         \* the documents handed to save_corpus
    id2word,        \* the id2word argument of save_corpus
    pc,             \* position of the writer: start, writing, patched, error, closed
    fout,           \* the bytes of the corpus file
    vocab,          \* the lines of the sibling vocabulary file (UCI)
    docno,          \* write_corpus: id of the last document processed
    poslast,        \* write_corpus: sink position recorded for the last document
    offsets,        \* write_corpus: the offset index
    num_terms,      \* write_corpus: running 1 + largest feature id written
    num_nnz,        \* write_corpus: running number of entry lines
    num_terms_arg,  \* MmWriter.write_corpus(num_terms=...): -1 stands for None
    hargs,          \* the counts handed to the header patch
    rpc,            \* position of the reader: unopened, ready, iterating, done, error
    rhdr,           \* the header the reader parsed
    yielded,        \* the (doc_id, document) pairs the current iterate pass has yielded
    fetched,        \* the last docbyoffset call: document index, result, error
    gen,            \* the suspended iterate pass: cursor of its handle, loop variables
    again,          \* a pass was started after a pass had completed
    first,          \* what the first completed iterate pass yielded
    dropped,        \* a pass was abandoned after it had yielded a document
    got             \* the last read_at call since the pass began: offset, result,
                    \* error, whether the pass had yielded a document

vars ==
    <<dialect, corpus, id2word, pc, fout, vocab, docno, poslast, offsets, num_terms,
      num_nnz, num_terms_arg, hargs, rpc, rhdr, yielded, fetched, gen, again, first,
      dropped, got>>

writerVars == <<fout, vocab, docno, poslast, offsets, num_terms, num_nnz,
                num_terms_arg, hargs, pc>>

passVars == <<gen, again, first, dropped, got>>

readerVars == <<rpc, rhdr, yielded, fetched, gen, again, first, dropped, got>>

\* no iterate pass started, no read_at made
InitPass ==
    /\ gen = [pos |-> 0, cur |-> -1, acc |-> <<>>, queue |-> <<>>, state |-> "none"]
    /\ again = FALSE
    /\ first = [set |-> FALSE, out |-> <<>>]
    /\ dropped = FALSE
    /\ got = [offset |-> -1, doc |-> <<>>, raised |-> FALSE, mid |-> FALSE]

inputVars == <<dialect, corpus, id2word>>

InitRest ==
    /\ pc = "start"
    /\ fout = <<>>
    /\ vocab = <<>>
    /\ docno = -1
    /\ poslast = -1
    /\ offsets = <<>>
    /\ num_terms = 0
    /\ num_nnz = 0
    /\ num_terms_arg = -1
    /\ hargs = <<>>
    /\ rpc = "unopened"
    /\ rhdr = [num_docs |-> <<0>>, num_terms |-> <<0>>, num_nnz |-> <<0>>]
    /\ yielded = <<>>
    /\ fetched = [idx |-> -1, doc |-> <<>>, raised |-> FALSE]
    /\ InitPass

Init ==
    /\ dialect \in {"uci", "mm"}
    /\ corpus \in Corpora
    /\ id2word \in Id2Words
    /\ InitRest

\* ------------------------------------------------------------ save_corpus

SetMax(S) == CHOOSE m \in S : \A x \in S : x <= m

\* utils.dict_from_corpus: ids 0..max feature id of the corpus, each named by
\* its own number
dict_from_corpus(c) ==
    LET ids == UNION {{c[i][j][1] : j \in 1..Len(c[i])} : i \in 1..Len(c)}
        n == IF ids = {} THEN 0 ELSE 1 + SetMax(ids)
    IN [i \in 0..(n - 1) |-> DigitChars[i + 1]]

\* the vocabulary file: one line per feature id in range(num_terms)
VocabLines(dict, n) ==
    [k \in 1..n |-> IF (k - 1) \in DOMAIN dict THEN dict[k - 1] ELSE "---"]

\* UciCorpus.save_corpus: the num_terms of the vocabulary file
UciVocabTerms(arg) ==
    IF arg.none THEN Cardinality(DOMAIN dict_from_corpus(corpus))
    ELSE IF DOMAIN arg.dict # {} THEN 1 + SetMax(DOMAIN arg.dict)
    ELSE 0

\* UciCorpus.save_corpus up to the blank headers of UciWriter.write_corpus
UciSaveCorpus ==
    /\ pc = "start"
    /\ dialect = "uci"
    /\ vocab' = VocabLines(IF id2word.none THEN dict_from_corpus(corpus)
                           ELSE id2word.dict, UciVocabTerms(id2word))
    /\ fout' = write_headers
    /\ docno' = -1
    /\ poslast' = -1
    /\ offsets' = <<>>
    /\ num_terms' = 0
    /\ num_nnz' = 0
    /\ pc' = "writing"
    /\ UNCHANGED <<num_terms_arg, hargs>>
    /\ UNCHANGED inputVars
    /\ UNCHANGED readerVars

\* MmCorpus.save_corpus: num_terms = len(id2word) if id2word is not None else None
MmDeclaredTerms(arg) == IF arg.none THEN -1 ELSE Cardinality(DOMAIN arg.dict)

\* MmCorpus.save_corpus up to the placeholder header of the writer
MmSaveCorpus ==
    /\ pc = "start"
    /\ dialect = "mm"
    /\ num_terms_arg' = MmDeclaredTerms(id2word)
    /\ fout' = mm_write_headers
    /\ docno' = -1
    /\ poslast' = -1
    /\ offsets' = <<>>
    /\ num_terms' = 0
    /\ num_nnz' = 0
    /\ pc' = "writing"
    /\ UNCHANGED <<vocab, hargs>>
    /\ UNCHANGED inputVars
    /\ UNCHANGED readerVars

\* ------------------------------------------------------------ write_corpus

\* RecordOffset without the sentinel: offsets.append(posnow)
RecordOffsetPlain(offs, posnow, last) == Append(offs, posnow)

\* RecordOffset with the sentinel put in the new slot instead of the last one
RecordOffsetNewSlot(offs, posnow, last) ==
    Append(offs, IF posnow = last THEN -1 ELSE posnow)

\* RecordOffset appending the position recorded for the document before
RecordOffsetPrevious(offs, posnow, last) ==
    Append(IF posnow = last /\ Len(offs) > 0
           THEN [offs EXCEPT ![Len(offs)] = -1] ELSE offs, last)

\* if posnow == poslast: offsets[-1] = -1;  offsets.append(posnow)
RecordOffset(offs, posnow, last) ==
    Append(IF posnow = last /\ Len(offs) > 0
           THEN [offs EXCEPT ![Len(offs)] = -1] ELSE offs, posnow)

\* RunningTerms without the max: num_terms = 1 + max_id
RunningTermsLast(terms, max_id) == 1 + max_id

\* num_terms = max(num_terms, 1 + max_id)
RunningTerms(terms, max_id) == Max(terms, 1 + max_id)

\* num_nnz += veclen
RunningNnz(nnz, veclen) == nnz + veclen

\* one pass of the loop of UciWriter.write_corpus (index=True)
UciWriteDoc ==
    /\ pc = "writing"
    /\ dialect = "uci"
    /\ docno + 1 < Len(corpus)
    /\ \E r \in {write_vector(fout, docno + 1, UciVector(corpus[docno + 2]), TRUE)} :
          /\ offsets' = RecordOffset(offsets, Len(fout), poslast)
          /\ poslast' = Len(fout)
          /\ fout' = r.fout
          /\ num_terms' = RunningTerms(num_terms, r.max_id)
          /\ num_nnz' = RunningNnz(num_nnz, r.veclen)
          /\ docno' = docno + 1
    /\ UNCHANGED <<vocab, num_terms_arg, hargs, pc>>
    /\ UNCHANGED inputVars
    /\ UNCHANGED readerVars

\* one pass of the loop of the coordinate writer (index=True)
MmWriteDoc ==
    /\ pc = "writing"
    /\ dialect = "mm"
    /\ docno + 1 < Len(corpus)
    /\ \E r \in {write_vector(fout, docno + 1, NonZero(corpus[docno + 2]), FALSE)} :
          /\ offsets' = RecordOffset(offsets, Len(fout), poslast)
          /\ poslast' = Len(fout)
          /\ fout' = r.fout
          /\ num_terms' = RunningTerms(num_terms, r.max_id)
          /\ num_nnz' = RunningNnz(num_nnz, r.veclen)
          /\ docno' = docno + 1
    /\ UNCHANGED <<vocab, num_terms_arg, hargs, pc>>
    /\ UNCHANGED inputVars
    /\ UNCHANGED readerVars

\* NumDocs without the + 1
NumDocsLast(last) == IF last < 0 THEN 0 ELSE last

\* NumDocs that counts at least one document
NumDocsAtLeastOne(last) == IF last < 0 THEN 1 ELSE last + 1

\* num_docs = docno + 1
NumDocs(last) == last + 1

\* UciWriter.write_corpus after the loop: num_docs = docno + 1, then the patch
UciUpdateHeaders ==
    /\ pc = "writing"
    /\ dialect = "uci"
    /\ docno + 1 = Len(corpus)
    /\ \E args \in {<<PyInt(NumDocs(docno)), PyInt(num_terms), PyInt(num_nnz)>>} :
       \E r \in {update_headers(fout, args[1], args[2], args[3])} :
          /\ hargs' = args
          /\ fout' = r.fout
          /\ pc' = IF r.raised THEN "error" ELSE "patched"
    /\ UNCHANGED <<vocab, docno, poslast, offsets, num_terms, num_nnz, num_terms_arg>>
    /\ UNCHANGED inputVars
    /\ UNCHANGED readerVars

\* a declared vocabulary size overrides the observed maximum
FinalTerms(declared, observed) == IF declared # -1 THEN declared ELSE observed

\* the coordinate writer after the loop: final counts, then the patch
MmUpdateHeaders ==
    /\ pc = "writing"
    /\ dialect = "mm"
    /\ docno + 1 = Len(corpus)
    /\ \E terms \in {FinalTerms(num_terms_arg, num_terms)} :
       \E args \in {<<PyInt(docno + 1), PyInt(terms), PyInt(num_nnz)>>} :
       \E r \in {fake_headers(fout, args[1], args[2], args[3])} :
          /\ hargs' = args
          /\ num_terms' = terms
          /\ fout' = r.fout
          /\ pc' = IF r.raised THEN "error" ELSE "patched"
    /\ UNCHANGED <<vocab, docno, poslast, offsets, num_nnz, num_terms_arg>>
    /\ UNCHANGED inputVars
    /\ UNCHANGED readerVars

\* writer.close(); return offsets
Close ==
    /\ pc = "patched"
    /\ pc' = "closed"
    /\ UNCHANGED <<fout, vocab, docno, poslast, offsets, num_terms, num_nnz,
                   num_terms_arg, hargs>>
    /\ UNCHANGED inputVars
    /\ UNCHANGED readerVars

\* -------------------------------------------------------------------- reading

HeaderEnd(f) == IF dialect = "uci" THEN skip_headers(f) ELSE mm_skip_headers(f)

\* UciCorpus(fname) / MmCorpus(fname): parse the header of the written file
OpenReader ==
    /\ pc = "closed"
    /\ rpc = "unopened"
    /\ \E h \in {IF dialect = "uci" THEN UciReaderInit(fout) ELSE MmReaderInit(fout)} :
          /\ rhdr' = [num_docs |-> h.num_docs, num_terms |-> h.num_terms,
                      num_nnz |-> h.num_nnz]
          /\ rpc' = IF h.raised THEN "error" ELSE "ready"
    /\ UNCHANGED <<yielded, fetched>>
    /\ UNCHANGED passVars
    /\ UNCHANGED inputVars
    /\ UNCHANGED writerVars

\* what a full pass over the file yields
FullPass == iterate(fout, HeaderEnd(fout), IntVal(rhdr.num_docs))

\* the consumer takes the next (doc_id, document) of the iterate pass
IterNext ==
    /\ rpc \in {"ready", "iterating"}
    /\ \E full \in {FullPass} :
       LET k == Len(yielded)
       IN IF k < Len(full.out)
          THEN /\ yielded' = Append(yielded, full.out[k + 1])
               /\ rpc' = IF k + 1 = Len(full.out) /\ ~full.raised
                         THEN "done" ELSE "iterating"
          ELSE /\ yielded' = yielded
               /\ rpc' = IF full.raised THEN "error" ELSE "done"
    /\ UNCHANGED <<rhdr, fetched>>
    /\ UNCHANGED passVars
    /\ UNCHANGED inputVars
    /\ UNCHANGED writerVars

\* corpus.docbyoffset(offsets[i]) for a document index i of the offset index
DocByOffset ==
    /\ rpc = "done"
    /\ \E i \in 1..Len(offsets) :
          \E r \in {docbyoffset(fout, offsets[i])} :
             fetched' = [idx |-> i - 1, doc |-> r.doc, raised |-> r.raised]
    /\ UNCHANGED <<rpc, rhdr, yielded>>
    /\ UNCHANGED passVars
    /\ UNCHANGED inputVars
    /\ UNCHANGED writerVars

Next ==
    \/ UciSaveCorpus
    \/ MmSaveCorpus
    \/ UciWriteDoc
    \/ MmWriteDoc
    \/ UciUpdateHeaders
    \/ MmUpdateHeaders
    \/ Close
    \/ OpenReader
    \/ IterNext
    \/ DocByOffset

Spec == Init /\ [][Next]_vars

\* ------------------------------------------- the header patch on its own

\* the int 10^(n-1): n decimal digits
Pow10(n) == [i \in 1..n |-> IF i = 1 THEN 1 ELSE 0]

\* counts handed to update_headers: small ones, and ones of 20, 21 and 22 digits
HeaderCounts ==
    {PyInt(0), PyInt(12), Pow10(MAX_HEADER_LENGTH), Pow10(MAX_HEADER_LENGTH + 1),
     Pow10(MAX_HEADER_LENGTH + 2)}

\* a UCI writer that has written its blank headers and one entry line, about
\* to be told its final counts
InitHdr ==
    /\ dialect = "uci"
    /\ corpus = << << <<0, 2>> >> >>
    /\ id2word = [none |-> TRUE, dict |-> <<>>]
    /\ pc = "patching"
    /\ fout = write_headers \o EntryLine(0, 0, 2, TRUE)
    /\ vocab = <<"0">>
    /\ docno = 0
    /\ poslast = Len(write_headers)
    /\ offsets = <<Len(write_headers)>>
    /\ num_terms = 1
    /\ num_nnz = 1
    /\ num_terms_arg = -1
    /\ hargs \in HeaderCounts \X HeaderCounts \X HeaderCounts
    /\ rpc = "unopened"
    /\ rhdr = [num_docs |-> <<0>>, num_terms |-> <<0>>, num_nnz |-> <<0>>]
    /\ yielded = <<>>
    /\ fetched = [idx |-> -1, doc |-> <<>>, raised |-> FALSE]
    /\ InitPass

\* writer.update_headers(num_docs, num_terms, num_nnz)
CallUpdateHeaders ==
    /\ pc = "patching"
    /\ \E r \in {update_headers(fout, hargs[1], hargs[2], hargs[3])} :
          /\ fout' = r.fout
          /\ pc' = IF r.raised THEN "error" ELSE "patched"
    /\ UNCHANGED <<vocab, docno, poslast, offsets, num_terms, num_nnz, num_terms_arg,
                   hargs>>
    /\ UNCHANGED inputVars
    /\ UNCHANGED readerVars

NextHdr ==
    \/ CallUpdateHeaders
    \/ Close
    \/ OpenReader

SpecHdr == InitHdr /\ [][NextHdr]_vars

\* ------------------------------------------------------------------ claims

\* the header region of a UCI file: its first three reserved lines
HeaderRegion(f) == SubSeq(f, 1, 3 * Len(FAKE_HEADER))

\* the header the reader parsed, as the triple (num_docs, num_terms, num_nnz)
ParsedHeader == <<rhdr.num_docs, rhdr.num_terms, rhdr.num_nnz>>

\* C4: once the header patch has completed without error and the file is
\* opened, the reader parses exactly the three counts handed to the patch: no
\* error, no blank value, no value run together with other bytes.
C4_HeaderIntegrity ==
    rpc # "unopened" => rpc # "error" /\ ParsedHeader = hargs

\* C6: the patch fails whenever one of the three counts has more decimal
\* digits than the reserved width MAX_HEADER_LENGTH: a patch that completed
\* was given only counts of at most MAX_HEADER_LENGTH digits.
C6_TooWideFails ==
    pc \in {"patched", "closed"} =>
        \A i \in 1..3 : Len(str(hargs[i])) <= MAX_HEADER_LENGTH

\* C7: when the patch fails because a count is too wide, the header region
\* still holds only its placeholder bytes.
C7_FailedPatchLeavesPlaceholder ==
    pc = "error" => HeaderRegion(fout) = write_headers

RECURSIVE EntriesFrom(_, _)
\* the entry lines of a file from offset p on: where each starts and what it says
EntriesFrom(f, p) ==
    IF p >= Len(f) THEN <<>>
    ELSE LET e == Decode(LineAt(f, p)) IN
         <<[pos |-> p, doc |-> e.doc, term |-> e.term, w |-> e.w]>>
             \o EntriesFrom(f, LineEnd(f, p))

\* the entry lines of the corpus file
Entries == EntriesFrom(fout, HeaderEnd(fout))

\* the entry lines among E that carry document id d
OfDoc(E, d) == {i \in 1..Len(E) : E[i].doc = d}

PairSet(doc) == {doc[j] : j \in 1..Len(doc)}

NoZeroWeights(c) == \A i \in 1..Len(c) : \A j \in 1..Len(c[i]) : c[i][j][2] # 0

IntegerWeights(c) == \A i \in 1..Len(c) : \A j \in 1..Len(c[i]) : c[i][j][2] % 2 = 0

RECURSIVE NonZeroUpTo(_)
\* the number of pairs of documents 0..d whose weight is not zero
NonZeroUpTo(d) ==
    IF d < 0 THEN 0
    ELSE Cardinality({j \in 1..Len(corpus[d + 1]) : corpus[d + 1][j][2] # 0})
             + NonZeroUpTo(d - 1)

\* C1: a full iterate pass yields exactly as many documents as the header's
\* num_docs, whichever ids have entry lines.
C1_GapFillCompleteness ==
    rpc = "done" => Len(yielded) = IntVal(rhdr.num_docs)

\* C1 witness: a finished pass over a file of three documents in which only
\* document 1 has entry lines (ids missing at the start and at the end).
C1_Witness ==
    /\ rpc = "done"
    /\ IntVal(rhdr.num_docs) = 3
    /\ Len(yielded) = 3
    /\ LET E == Entries IN
       OfDoc(E, 0) = {} /\ OfDoc(E, 1) # {} /\ OfDoc(E, 2) = {}

\* a finished pass returned the corpus: as many documents as were written and
\* as the header says, each with the pairs of the original
RoundTrip ==
    /\ Len(yielded) = Len(corpus)
    /\ Len(yielded) = IntVal(rhdr.num_docs)
    /\ \A i \in 1..Len(corpus) : PairSet(yielded[i][2]) = PairSet(corpus[i])

\* C2 as stated: for a corpus without zero-weight entries, write then iterate
\* yields the original documents, in both dialects.
C2_RoundTripAnyWeights ==
    rpc = "done" /\ NoZeroWeights(corpus) => RoundTrip

\* C2 amended: the round trip holds in the coordinate dialect for any non-zero
\* weights and in the UCI dialect for non-zero integer weights.
C2_RoundTrip ==
    (/\ rpc = "done"
     /\ NoZeroWeights(corpus)
     /\ (dialect = "uci" => IntegerWeights(corpus)))
    => RoundTrip

\* C2 witness: a UCI corpus of integer counts, with an empty document before a
\* document of two pairs, read back.
C2_Witness ==
    /\ rpc = "done"
    /\ dialect = "uci"
    /\ NoZeroWeights(corpus)
    /\ IntegerWeights(corpus)
    /\ Len(corpus) = 2
    /\ Len(corpus[1]) = 0
    /\ Len(corpus[2]) = 2

\* C3 as stated: docbyoffset at offsets[i] returns the i-th document of a full
\* pass, for every document index i.
C3_OffsetValidityAll ==
    fetched.idx >= 0 =>
        ~fetched.raised /\ fetched.doc = yielded[fetched.idx + 1][2]

\* C3 amended: docbyoffset at offsets[i] returns the i-th document of a full
\* pass for every document index i whose slot is not the -1 sentinel.
C3_OffsetValidity ==
    fetched.idx >= 0 /\ offsets[fetched.idx + 1] # -1 =>
        ~fetched.raised /\ fetched.doc = yielded[fetched.idx + 1][2]

\* C3 witness: the last document is empty, the one before it is not, and the
\* empty one has been fetched through its offset.
C3_Witness ==
    /\ Len(offsets) >= 2
    /\ fetched.idx = Len(offsets) - 1
    /\ offsets[fetched.idx + 1] # -1
    /\ fetched.doc = <<>>
    /\ yielded[fetched.idx][2] # <<>>

\* C5: a pair of weight zero handed to the writer leaves no entry line, is not
\* counted in num_nnz, and its document is still counted in num_docs.
\* (Stated over the writer's states; the reader's actions leave the writer's
\* variables unchanged.)
C5_ZeroWeightExclusion ==
    /\ pc \in {"writing", "patched", "closed"} /\ rpc = "unopened" =>
          LET E == Entries IN
          /\ \A d \in 0..docno : \A j \in 1..Len(corpus[d + 1]) :
                corpus[d + 1][j][2] = 0 =>
                    \A i \in OfDoc(E, d) : E[i].term # corpus[d + 1][j][1]
          /\ \A i \in 1..Len(E) : E[i].w # 0
          /\ num_nnz <= NonZeroUpTo(docno)
    /\ pc \in {"patched", "closed"} => hargs[1] = PyInt(Len(corpus))

\* C5 witness: a written corpus whose first document holds only a zero-weight
\* pair and whose second document holds a pair that was written.
C5_Witness ==
    /\ pc = "closed"
    /\ Len(corpus) = 2
    /\ Len(corpus[1]) = 1 /\ corpus[1][1][2] = 0
    /\ OfDoc(Entries, 1) # {}

\* C8: when an id2word is supplied, the num_terms of the header is the
\* declared vocabulary size, in both dialects.
C8_DeclaredTermsInHeader ==
    pc \in {"patched", "closed"} /\ ~id2word.none =>
        hargs[2] = PyInt(IF dialect = "uci" THEN UciVocabTerms(id2word)
                         ELSE MmDeclaredTerms(id2word))

\* the largest feature id among the entry lines E, or -1
MaxTerm(E) ==
    IF Len(E) = 0 THEN -1 ELSE SetMax({E[i].term : i \in 1..Len(E)})

\* C9: after each document, num_nnz is the number of entry lines written and
\* num_terms is 1 + the largest feature id written (0 when none was); after
\* the last document num_docs is the number of documents supplied.
C9_RunningTotals ==
    /\ pc = "writing" =>
          LET E == Entries IN
          /\ num_nnz = Len(E)
          /\ num_terms = 1 + MaxTerm(E)
    /\ pc \in {"patched", "closed"} => hargs[1] = PyInt(Len(corpus))

\* C9 witness: three documents processed, the second one empty and the third
\* with a smaller largest feature id than the first.
C9_Witness ==
    /\ pc = "writing"
    /\ docno = 2
    /\ num_terms = 2
    /\ LET E == Entries IN
       /\ OfDoc(E, 1) = {}
       /\ \E i \in OfDoc(E, 0) : E[i].term = 1
       /\ \E i \in OfDoc(E, 2) : E[i].term = 0

\* the offset of the first of the entry lines E that carries document id d
FirstLineOffset(E, d) ==
    E[CHOOSE i \in OfDoc(E, d) : \A k \in OfDoc(E, d) : i <= k].pos

\* C10: a slot that is not the last is -1 exactly when its document had no
\* entry line written; every other slot holds the sink position recorded
\* before the document's first line; no non-negative offset occurs twice.
\* (Stated over the writer's states; the reader's actions leave the writer's
\* variables unchanged.)
C10_OffsetSentinel ==
    pc \in {"writing", "patched", "closed"} /\ rpc = "unopened" =>
        LET E == Entries IN
        /\ Len(offsets) = docno + 1
        /\ \A i \in 1..Len(offsets) :
              /\ i < Len(offsets) => (offsets[i] = -1 <=> OfDoc(E, i - 1) = {})
              /\ OfDoc(E, i - 1) # {} => offsets[i] = FirstLineOffset(E, i - 1)
              /\ i = Len(offsets) /\ OfDoc(E, i - 1) = {} => offsets[i] = Len(fout)
        /\ \A i, k \in 1..Len(offsets) :
              i # k /\ offsets[i] >= 0 => offsets[i] # offsets[k]

\* C10 witness: an empty first document, a run of two empty documents, then a
\* document with lines.
C10_Witness ==
    /\ pc = "closed"
    /\ Len(offsets) = 3
    /\ offsets[1] = -1
    /\ offsets[2] = -1
    /\ offsets[3] >= 0
    /\ OfDoc(Entries, 2) # {}

\* where the entry-line region begins: the first recorded document offset, the
\* position of the sink right after the placeholder header
BodyStart == IF dialect = "uci" THEN Len(write_headers) ELSE Len(mm_write_headers)

\* the three line terminators of the reserved UCI header lines are in place
HeaderTerminators(f) == \A k \in 1..3 : f[k * Len(FAKE_HEADER)] = NL

\* what a header patch must leave alone: the length of the file, every byte
\* from the first document offset on, the offset index and, in the UCI
\* dialect, the terminators of the three header lines (so that the lines after
\* the header still begin where they did)
PatchFrame ==
    /\ Len(fout') = Len(fout)
    /\ \A i \in 1..Len(fout) : i > BodyStart => fout'[i] = fout[i]
    /\ offsets' = offsets
    /\ dialect = "uci" =>
          /\ HeaderTerminators(fout')
          /\ skip_headers(fout') = BodyStart

\* C11: a header patch that completes without error changes neither the
\* length of the file nor any byte of the entry-line region, and in the UCI
\* dialect leaves the three header line terminators intact.
C11_PatchFrame ==
    [][(pc \in {"writing", "patching"} /\ pc' = "patched") => PatchFrame]_vars

\* f is an initial part of g: g was obtained from f by writing at the end only
IsPrefix(f, g) == Len(f) <= Len(g) /\ SubSeq(g, 1, Len(f)) = f

\* C13: the placeholder header is written before any entry line; a document's
\* offset is the sink position before any of its lines is written; the header
\* is patched once, after the last document, and the sink is closed after the
\* patch; between the placeholder and the patch the sink only grows at its end.
C13_WriteOrdering ==
    [][/\ pc = "start" => fout = <<>>
       /\ (pc = "start" /\ pc' = "writing") =>
             fout' = (IF dialect = "uci" THEN write_headers ELSE mm_write_headers)
       /\ docno' # docno =>
             /\ pc = "writing" /\ pc' = "writing"
             /\ Len(fout) >= BodyStart
             /\ hargs = <<>>
             /\ Len(offsets') = Len(offsets) + 1
             /\ offsets'[Len(offsets')] = Len(fout)
             /\ IsPrefix(fout, fout')
       /\ hargs' # hargs =>
             /\ hargs = <<>>
             /\ pc = "writing"
             /\ docno + 1 = Len(corpus)
             /\ docno' = docno
       /\ pc \in {"patched", "error", "closed"} =>
             /\ fout' = fout
             /\ hargs' = hargs
             /\ docno' = docno
             /\ offsets' = offsets
       /\ pc \in {"patched", "closed"} => hargs # <<>>
       /\ (pc' = "closed" /\ pc # "closed") => pc = "patched"
      ]_vars

\* C13 witness: a finished write of three documents, two of them with lines
C13_Witness ==
    /\ pc = "closed"
    /\ Len(corpus) = 3
    /\ hargs # <<>>
    /\ Len(offsets) = 3
    /\ num_nnz = 2
    /\ offsets[1] >= 0
    /\ offsets[3] > offsets[1]

\* the pairs of a document the UCI writer has to write: those whose weight
\* truncates to a non-zero integer, with the truncated weight (in halves)
Truncated(doc) ==
    {<<p[1], p[2] - (p[2] % 2)>> : p \in {q \in PairSet(doc) : q[2] >= 2}}

RECURSIVE TruncatedUpTo(_)
\* all of them for documents 0..d, each with its document id
TruncatedUpTo(d) ==
    IF d < 0 THEN {}
    ELSE {<<d, p>> : p \in Truncated(corpus[d + 1])} \cup TruncatedUpTo(d - 1)

\* C18: the UCI writer writes int(y) for every pair (x, y) and drops the pair
\* (no line, no num_nnz increment, no contribution to num_terms) exactly when
\* int(y) is 0; every entry line of a UCI file carries a non-zero integer.
\* (Stated over the writer's states; the reader's actions leave the writer's
\* variables unchanged.)
C18_UciWeightCoercion ==
    dialect = "uci" /\ pc \in {"writing", "patched", "closed"} /\ rpc = "unopened" =>
        LET E == Entries
            T == TruncatedUpTo(docno)
        IN /\ {<<E[i].doc, <<E[i].term, E[i].w>> >> : i \in 1..Len(E)} = T
           /\ Len(E) = Cardinality(T)
           /\ \A i \in 1..Len(E) : E[i].w # 0 /\ E[i].w % 2 = 0
           /\ num_nnz = Cardinality(T)
           /\ num_terms = (IF T = {} THEN 0 ELSE 1 + SetMax({t[2][1] : t \in T}))

\* C18 witness: a UCI file written from a pair of weight 0.5, which was
\* dropped, and a pair of weight 1.5, which was written as 1
C18_Witness ==
    /\ dialect = "uci"
    /\ pc = "closed"
    /\ rpc = "unopened"
    /\ corpus = << << <<0, 1>> >>, << <<0, 3>> >> >>
    /\ LET E == Entries IN Len(E) = 1 /\ E[1].doc = 1 /\ E[1].w = 2

VocabDict == IF id2word.none THEN dict_from_corpus(corpus) ELSE id2word.dict

\* C20: the vocabulary file UciCorpus.save_corpus writes has one line per
\* feature id (the word of id2word, or '---' for an id id2word lacks), and as
\* many lines as the num_terms of the corpus file's header, whether id2word
\* was inferred or supplied.
C20_VocabHeaderConsistency ==
    dialect = "uci" /\ pc \in {"patched", "closed"} =>
        /\ \A k \in 1..Len(vocab) :
              vocab[k] = (IF (k - 1) \in DOMAIN VocabDict THEN VocabDict[k - 1] ELSE "---")
        /\ \A i \in DOMAIN VocabDict : i < Len(vocab)
        /\ PyInt(Len(vocab)) = hargs[2]

\* ------------------------------------------- the readers on their own

\* entry lines per file
MaxLines == 3

\* the document ids of the entry lines of a file, line by line: every
\* ascending stream of up to MaxLines lines, and the streams of two lines
\* (among them the descending ones)
DocIdStreams ==
    UNION {{ids \in [1..n -> 0..(MaxDocs - 1)] :
               n = 2 \/ \A i \in 1..(n - 1) : ids[i] <= ids[i + 1]} : n \in 0..MaxLines}

RECURSIVE StreamLines(_, _, _)
\* the entry lines of a stream from its k-th line on: line k has document id
\* ids[k], feature id k - 1 and weight k
StreamLines(ids, k, asInt) ==
    IF k > Len(ids) THEN <<>>
    ELSE EntryLine(ids[k], k - 1, 2 * k, asInt) \o StreamLines(ids, k + 1, asInt)

\* a UCI header as the writer leaves it: three reserved lines, patched
UciHeader(nd, nn) ==
    update_headers(write_headers, PyInt(nd), PyInt(MaxLines), PyInt(nn)).fout

\* a coordinate header as the writer leaves it
MmHeader(nd, nn) ==
    fake_headers(mm_write_headers, PyInt(nd), PyInt(MaxLines), PyInt(nn)).fout

\* a declared number of documents for each stream: any that covers all its
\* document ids, and the one that leaves out the largest
Declared ==
    {h \in (0..MaxDocs) \X DocIdStreams : \A k \in 1..Len(h[2]) : h[2][k] <= h[1]}

\* UCI files: a full header and the lines of a stream, for each of Declared;
\* files that end within the header (0, 1 or 2 header lines); a header that was
\* never patched; a header whose first line is no number
UciFiles ==
    {UciHeader(h[1], Len(h[2])) \o StreamLines(h[2], 1, TRUE) : h \in Declared}
    \cup {SubSeq(UciHeader(2, 0), 1, k * Len(FAKE_HEADER)) : k \in 0..2}
    \cup {write_headers, WriteAt(UciHeader(2, 0), 0, <<"x">>)}

\* coordinate files: a comment line, the dimension line, then each stream
MmFiles ==
    {MmHeader(h[1], Len(h[2])) \o StreamLines(h[2], 1, FALSE) : h \in Declared}

\* a file of either dialect on disk, closed, about to be opened by a reader
InitRead ==
    /\ dialect \in {"uci", "mm"}
    /\ fout \in (IF dialect = "uci" THEN UciFiles ELSE MmFiles)
    /\ corpus = <<>>
    /\ id2word = [none |-> TRUE, dict |-> <<>>]
    /\ pc = "closed"
    /\ vocab = <<>>
    /\ docno = -1
    /\ poslast = -1
    /\ offsets = <<>>
    /\ num_terms = 0
    /\ num_nnz = 0
    /\ num_terms_arg = -1
    /\ hargs = <<>>
    /\ rpc = "unopened"
    /\ rhdr = [num_docs |-> <<0>>, num_terms |-> <<0>>, num_nnz |-> <<0>>]
    /\ yielded = <<>>
    /\ fetched = [idx |-> -1, doc |-> <<>>, raised |-> FALSE]
    /\ InitPass

\* where a pass that re-reads from the cursor of the pass before it begins
PassStartShared(f, old) == Max(old, HeaderEnd(f))

\* where an iterate pass begins to read: it opens the file anew and skips the
\* header, wherever the handle of an earlier pass stopped
PassStart(f, old) == HeaderEnd(f)

\* the loop variables of a pass that has read nothing yet
GenStart(p) == [pos |-> p, cur |-> -1, acc |-> <<>>, queue |-> <<>>, state |-> "run"]

RECURSIVE GenAdvance(_, _, _)
\* run the suspended pass g up to its next yield: read lines from its cursor
\* until a change of document id or the end of the file queues what is to be
\* yielded (state "end": the stream is exhausted, "raised": a malformed line)
GenAdvance(f, g, num_docs) ==
    IF g.queue # <<>> \/ g.state # "run" THEN g
    ELSE IF g.pos >= Len(f)
    THEN [g EXCEPT !.queue = Emit(g.cur, g.acc) \o Empties(g.cur + 1, num_docs - 1),
                   !.state = "end"]
    ELSE LET e == Decode(LineAt(f, g.pos)) IN
         IF e.bad THEN [g EXCEPT !.state = "raised"]
         ELSE IF e.doc = g.cur
         THEN GenAdvance(f, [g EXCEPT !.pos = LineEnd(f, g.pos),
                                      !.acc = Append(g.acc, <<e.term, e.w>>)], num_docs)
         ELSE GenAdvance(f, [pos |-> LineEnd(f, g.pos), cur |-> e.doc,
                             acc |-> << <<e.term, e.w>> >>,
                             queue |-> Emit(g.cur, g.acc) \o Empties(g.cur + 1, e.doc - 1),
                             state |-> "run"], num_docs)

\* iter(corpus): a new iterate pass over the opened file
StartPass ==
    /\ rpc \in {"ready", "done"}
    /\ gen' = GenStart(PassStart(fout, gen.pos))
    /\ yielded' = <<>>
    /\ again' = (again \/ first.set)
    /\ got' = [offset |-> -1, doc |-> <<>>, raised |-> FALSE, mid |-> FALSE]
    /\ rpc' = "iterating"
    /\ UNCHANGED <<rhdr, fetched, first, dropped>>
    /\ UNCHANGED inputVars
    /\ UNCHANGED writerVars

\* next(): the pass runs to its next yield, or ends
PassNext ==
    /\ rpc = "iterating"
    /\ \E g \in {GenAdvance(fout, gen, IntVal(rhdr.num_docs))} :
          IF g.queue # <<>>
          THEN /\ yielded' = Append(yielded, Head(g.queue))
               /\ gen' = [g EXCEPT !.queue = Tail(g.queue)]
               /\ rpc' = "iterating"
               /\ first' = first
          ELSE /\ yielded' = yielded
               /\ gen' = g
               /\ rpc' = IF g.state = "raised" THEN "error" ELSE "done"
               /\ first' = IF g.state = "end" /\ ~first.set
                           THEN [set |-> TRUE, out |-> yielded] ELSE first
    /\ UNCHANGED <<rhdr, fetched, again, dropped, got>>
    /\ UNCHANGED inputVars
    /\ UNCHANGED writerVars

\* the consumer stops taking documents from the pass
AbandonPass ==
    /\ rpc = "iterating"
    /\ rpc' = "ready"
    /\ dropped' = (dropped \/ Len(yielded) > 0)
    /\ UNCHANGED <<rhdr, yielded, fetched, gen, again, first, got>>
    /\ UNCHANGED inputVars
    /\ UNCHANGED writerVars

\* the offsets handed to read_at: the start of each entry line, the end of the
\* file, and an offset inside the first line after the header
ReadOffsets(f) ==
    LET E == EntriesFrom(f, HeaderEnd(f)) IN
    {E[i].pos : i \in 1..Len(E)} \cup {Len(f), HeaderEnd(f) + 1}

\* the cursor of a pass after a read_at made through the handle of the pass
CursorShared(pos, offset) == offset

\* the cursor of a suspended pass after a read_at: read_at seeks on a handle of
\* its own
CursorAfterReadAt(pos, offset) == pos

\* corpus.docbyoffset(offset), between the steps of a pass or outside one (one
\* call per pass: a second call would only replace what got records)
ReadAt ==
    /\ rpc \in {"ready", "iterating", "done"}
    /\ got.offset = -1
    /\ \E offset \in ReadOffsets(fout) :
       \E r \in {docbyoffset(fout, offset)} :
          /\ got' = [offset |-> offset, doc |-> r.doc, raised |-> r.raised,
                     mid |-> (rpc = "iterating" /\ Len(yielded) > 0)]
          /\ gen' = [gen EXCEPT !.pos = CursorAfterReadAt(gen.pos, offset)]
    /\ UNCHANGED <<rpc, rhdr, yielded, fetched, again, first, dropped>>
    /\ UNCHANGED inputVars
    /\ UNCHANGED writerVars

NextRead ==
    \/ OpenReader
    \/ StartPass
    \/ PassNext
    \/ AbandonPass
    \/ ReadAt

SpecRead == InitRead /\ [][NextRead]_vars

RECURSIVE CountLines(_, _)
\* the number of lines of a file from offset p on
CountLines(f, p) == IF p >= Len(f) THEN 0 ELSE 1 + CountLines(f, LineEnd(f, p))

\* C12: opening a UCI file that has fewer than three header lines fails; no
\* header with defaulted counts is handed to the caller.
C12_ShortHeaderIsFatal ==
    dialect = "uci" /\ rpc # "unopened" /\ CountLines(fout, 0) < 3 => rpc = "error"

RECURSIVE PairsOf(_, _)
\* the (feature_id, weight) pairs of the entry lines E that carry document id
\* d, in file order
PairsOf(E, d) ==
    IF Len(E) = 0 THEN <<>>
    ELSE (IF E[1].doc = d THEN << <<E[1].term, E[1].w>> >> ELSE <<>>)
             \o PairsOf(Tail(E), d)

\* the document ids of the entry lines E ascend and lie within 0..n-1 (so the
\* lines of one document are contiguous)
WellGrouped(E, n) ==
    /\ \A i \in 1..Len(E) : E[i].doc \in 0..(n - 1)
    /\ \A i \in 1..(Len(E) - 1) : E[i].doc <= E[i + 1].doc

\* C14: over an entry stream whose document ids are contiguous, ascending and
\* within 0..num_docs-1, an iterate pass yields the ids 0, 1, ..., num_docs-1
\* in this order, each once, the document of id d holding exactly the pairs of
\* the lines with document id d, in file order.
C14_ReaderGrouping ==
    rpc \in {"iterating", "done"} =>
        LET E == Entries
            n == IntVal(rhdr.num_docs)
            all == [d \in 1..n |-> <<d - 1, PairsOf(E, d - 1)>>]
        IN WellGrouped(E, n) =>
              /\ IsPrefix(yielded, all)
              /\ rpc = "done" => yielded = all

\* C14 witness: a finished pass that yielded a document of two lines, then a
\* fabricated empty document, then a document of one line
C14_Witness ==
    /\ rpc = "done"
    /\ Len(yielded) = 3
    /\ Len(yielded[1][2]) = 2
    /\ yielded[2][2] = <<>>
    /\ Len(yielded[3][2]) = 1
    /\ WellGrouped(Entries, IntVal(rhdr.num_docs))

\* the last line of the run of lines of E that begins at line i and shares its
\* document id
RunEnd(E, i) ==
    CHOOSE j \in i..Len(E) :
        /\ \A k \in i..j : E[k].doc = E[i].doc
        /\ j = Len(E) \/ E[j + 1].doc # E[i].doc

\* C15: read_at at the start of an entry line returns exactly the pairs of the
\* maximal run of consecutive lines from there on that share the first line's
\* document id: nothing of a later document, no fabricated document, no error.
C15_ReadAtRun ==
    got.offset >= 0 =>
        LET E == Entries IN
        \A i \in 1..Len(E) :
            E[i].pos = got.offset =>
                /\ ~got.raised
                /\ got.doc = [k \in 1..(RunEnd(E, i) - i + 1) |->
                                 <<E[i + k - 1].term, E[i + k - 1].w>>]

\* C15 witness: read_at at the first of two lines of one document that are
\* followed by a line of another document
C15_Witness ==
    /\ got.offset >= 0
    /\ Len(got.doc) = 2
    /\ LET E == Entries IN
       /\ Len(E) = 3
       /\ E[1].pos = got.offset
       /\ E[2].doc = E[1].doc
       /\ E[3].doc # E[1].doc

LineStops(f) == {i \in 1..Len(f) : f[i] = NL}

\* the offset just after the third line terminator of a file that has three
ThirdStop(f) ==
    CHOOSE i \in LineStops(f) : Cardinality({k \in LineStops(f) : k < i}) = 2

\* a UCI pass has skipped the header and has read no line yet
JustSkipped ==
    /\ dialect = "uci"
    /\ rpc = "iterating"
    /\ gen.state = "run"
    /\ gen.cur = -1

\* C21: UciReader.skip_headers leaves the stream just after its third line, so
\* that the next line read is the first entry line; on a stream of fewer than
\* three lines it leaves the stream at its end, without error.
C21_SkipHeaders ==
    JustSkipped =>
        IF CountLines(fout, 0) >= 3
        THEN /\ gen.pos = ThirdStop(fout)
             /\ Len(fout) > gen.pos =>
                   LET e == Decode(LineAt(fout, gen.pos))
                   IN ~e.bad /\ e.term = 0 /\ e.w = 2
        ELSE gen.pos = Len(fout)

\* C21 witness: a pass over a UCI file of three header lines and two entry
\* lines that has skipped the header and read nothing yet
C21_Witness ==
    /\ JustSkipped
    /\ CountLines(fout, 0) = 5
    /\ gen.pos = 3 * Len(FAKE_HEADER)

\* C21 witness of the short stream: a pass over a UCI file of two lines
C21_WitnessShort ==
    /\ JustSkipped
    /\ CountLines(fout, 0) = 2
    /\ gen.pos = Len(fout)

====
